---- MODULE Spec2Model ----
(***************************************************************************)
(* Remediation lifecycle and Knowledge Bank of the data-quality agents.    *)
(*                                                                         *)
(* SQL text is modelled as a sequence of one-character strings so that the *)
(* substring tests, slices and regular-expression substitutions of         *)
(* dq_agents/remediator/tools.py are computed character by character, as   *)
(* Python computes them.                                                   *)
(***************************************************************************)
EXTENDS Integers, Sequences, FiniteSets, TLC

VARIABLES
    \* ---- Streamlit session state of the Remediator flow (streamlit_app/app.py)
    active_tab,         \* st.session_state.active_tab
    approved_fix,       \* st.session_state.approved_fix, or None
    dry_run_results,    \* st.session_state.dry_run_results, or None
    execution_results,  \* st.session_state.execution_results, or None
    skip_dry_run,       \* the "skip dry run" checkbox
    confirm_execute,    \* the "I confirm this fix is safe" checkbox
    \* ---- what the remediator tools did (observation of the data store boundary)
    grouped_issues,     \* st.session_state.grouped_issues is present
    calls,              \* the tool calls made by the agent run of the last step
    history,            \* which attempts were previewed, applied and verified so far
    attempts,           \* number of fixes approved so far (attempt ids)
    env_configured,     \* BQ_DATA_PROJECT_ID / BQ_DATASET_ID are set in the environment
    \* ---- Knowledge Bank (knowledge_bank/kb_manager.py)
    kb_file,            \* persisted JSON file
    kb_data,            \* manager -> cached snapshot (self._kb_data), or None
    today,              \* datetime.now() as a day number
    outcomes,           \* number of outcomes recorded by update_fix_stats so far
    kb_call,            \* per manager: the mutating call it is inside of (store loaded, not yet saved), or None
    kb_match,           \* what the last call returned when it was search_similar_issue, or None
    \* ---- ticket log (jira_mock/ticket_manager.py)
    jira_file,          \* jira_tickets.json, or None while the file does not exist
    jira_data,          \* per caller inside create_ticket: its arguments and the log it loaded, or None
    jira_return         \* what the last ticket_manager call returned, or None

uiVars == <<active_tab, approved_fix, dry_run_results, execution_results,
            skip_dry_run, confirm_execute, grouped_issues, calls, history, attempts,
            env_configured>>
kbVars == <<kb_file, kb_data, today, outcomes, kb_match, kb_call>>
jiraVars == <<jira_file, jira_data, jira_return>>
vars == <<uiVars, kbVars, jiraVars>>

\* An optional value (a session key that may be absent, Python's None) is
\* the empty sequence when absent and the one-element sequence when present.
None == <<>>
Some(x) == <<x>>
The(opt) == opt[1]

-----------------------------------------------------------------------------
(* Character-level string functions of Python used by the tools.           *)

LowerLetters == <<"a","b","c","d","e","f","g","h","i","j","k","l","m","n","o","p","q","r","s","t","u","v","w","x","y","z">>
UpperLetters == <<"A","B","C","D","E","F","G","H","I","J","K","L","M","N","O","P","Q","R","S","T","U","V","W","X","Y","Z">>
DigitsUnderscore == <<"0","1","2","3","4","5","6","7","8","9","_">>

Range(f) == {f[i] : i \in DOMAIN f}

\* \w of the re module (ASCII part)
WordChars == Range(LowerLetters) \cup Range(UpperLetters) \cup Range(DigitsUnderscore)
\* the character class [a-zA-Z0-9_-]
ClassChars == WordChars \cup {"-"}
\* \s
SpaceChars == {" "}

UpperChar(c) == IF c \in Range(LowerLetters) THEN UpperLetters[CHOOSE i \in 1..26 : LowerLetters[i] = c] ELSE c

\* str.upper()
Upper(s) == [i \in 1..Len(s) |-> UpperChar(s[i])]

\* s[i:j] with 1-based inclusive positions; empty when j < i
Slice(s, i, j) == IF j < i THEN <<>> ELSE SubSeq(s, i, j)

\* does sub occur in s starting at 1-based position i
OccursAt(s, sub, i) == /\ i >= 1
                       /\ i + Len(sub) - 1 <= Len(s)
                       /\ \A k \in 1..Len(sub) : s[i + k - 1] = sub[k]

\* str.find(sub): 0-based index of the first occurrence, -1 when absent
Find(s, sub) == IF \E i \in 1..Len(s) : OccursAt(s, sub, i) THEN (CHOOSE i \in 1..Len(s) : OccursAt(s, sub, i) /\ \A j \in 1..(i-1) : ~OccursAt(s, sub, j)) - 1 ELSE -1

\* sub in s
Contains(s, sub) == Find(s, sub) > -1

\* str.replace(old, new): left to right, non-overlapping
RECURSIVE ReplaceFrom(_, _, _, _)
ReplaceFrom(s, old, new, i) == IF i > Len(s) THEN <<>> ELSE IF OccursAt(s, old, i) THEN new \o ReplaceFrom(s, old, new, i + Len(old)) ELSE <<s[i]>> \o ReplaceFrom(s, old, new, i + 1)

Replace(s, old, new) == ReplaceFrom(s, old, new, 1)

\* str.strip()
RECURSIVE LStrip(_)
LStrip(s) == IF s # <<>> /\ Head(s) \in SpaceChars THEN LStrip(Tail(s)) ELSE s

RECURSIVE RStrip(_)
RStrip(s) == IF s # <<>> /\ s[Len(s)] \in SpaceChars THEN RStrip(SubSeq(s, 1, Len(s) - 1)) ELSE s

Strip(s) == RStrip(LStrip(s))

\* \b at the gap before 1-based position i
Boundary(s, i) == LET left == i > 1 /\ i - 1 <= Len(s) /\ s[i-1] \in WordChars
                      right == i >= 1 /\ i <= Len(s) /\ s[i] \in WordChars
                  IN left # right

\* end of the longest run of [a-zA-Z0-9_-] starting at i (i-1 when the run is empty)
RECURSIVE RunEnd(_, _)
RunEnd(s, i) == IF i <= Len(s) /\ s[i] \in ClassChars THEN RunEnd(s, i + 1) ELSE i - 1

\* first position at or after i that is not whitespace
RECURSIVE SkipSpace(_, _)
SkipSpace(s, i) == IF i <= Len(s) /\ s[i] \in SpaceChars THEN SkipSpace(s, i + 1) ELSE i

\* the negative lookahead (?!\s*\() at position i
NotBeforeParen(s, i) == LET j == SkipSpace(s, i) IN ~(j <= Len(s) /\ s[j] = "(")

\* re.sub(rf'\b{word}\b', repl, s)
RECURSIVE SubWordFrom(_, _, _, _)
SubWordFrom(s, word, repl, i) == IF i > Len(s) THEN <<>> ELSE IF OccursAt(s, word, i) /\ Boundary(s, i) /\ Boundary(s, i + Len(word)) THEN repl \o SubWordFrom(s, word, repl, i + Len(word)) ELSE <<s[i]>> \o SubWordFrom(s, word, repl, i + 1)

SubWord(s, word, repl) == SubWordFrom(s, word, repl, 1)

\* A match at i of  \b C+ ( \. C+ ){dots-1} \. (C+) \b  followed, when lookahead
\* is set, by (?!\s*\():  the start of the last group and the end of the match,
\* or NoMatch.  The last group is greedy and backs off to the longest end
\* where \b (and the lookahead) hold.
NoMatch == [g |-> 0, e |-> 0]

GroupEnds(s, g, lookahead) == {e \in g..RunEnd(s, g) : Boundary(s, e + 1) /\ (lookahead => NotBeforeParen(s, e + 1))}

MaxOf(S) == CHOOSE x \in S : \A y \in S : y <= x

RECURSIVE QualifiedTail(_, _, _, _)
QualifiedTail(s, i, dots, lookahead) ==
    LET e1 == RunEnd(s, i)
    IN IF e1 < i THEN NoMatch
       ELSE IF dots = 0
            THEN (IF GroupEnds(s, i, lookahead) = {} THEN NoMatch ELSE [g |-> i, e |-> MaxOf(GroupEnds(s, i, lookahead))])
            ELSE IF e1 + 1 <= Len(s) /\ s[e1 + 1] = "." THEN QualifiedTail(s, e1 + 2, dots - 1, lookahead) ELSE NoMatch

QualifiedAt(s, i, dots, lookahead) == IF Boundary(s, i) THEN QualifiedTail(s, i, dots, lookahead) ELSE NoMatch

\* re.sub(<qualified name with `dots` dots>, prefix + r'\1', s)
RECURSIVE SubQualifiedFrom(_, _, _, _, _)
SubQualifiedFrom(s, dots, lookahead, prefix, i) ==
    IF i > Len(s) THEN <<>>
    ELSE LET m == QualifiedAt(s, i, dots, lookahead)
         IN IF m # NoMatch
            THEN prefix \o Slice(s, m.g, m.e) \o SubQualifiedFrom(s, dots, lookahead, prefix, m.e + 1)
            ELSE <<s[i]>> \o SubQualifiedFrom(s, dots, lookahead, prefix, i + 1)

SubQualified(s, dots, lookahead, prefix) == SubQualifiedFrom(s, dots, lookahead, prefix, 1)

-----------------------------------------------------------------------------
(* Text constants of dq_agents/remediator/tools.py.                        *)

kwUPDATE == <<"U","P","D","A","T","E">>
kwDELETE == <<"D","E","L","E","T","E">>
kwWHERE == <<"W","H","E","R","E">>
kwFROM == <<"F","R","O","M">>
kwSELECT == <<"S","E","L","E","C","T">>
phTable == <<"{","t","a","b","l","e","}">>
phTABLE_NAME == <<"T","A","B","L","E","_","N","A","M","E">>
phDoubleTable == <<"{","{","t","a","b","l","e","}","}">>
txtSelectStarFrom == <<"S","E","L","E","C","T"," ","*"," ","F","R","O","M"," ">>
txtSelectStar == <<"S","E","L","E","C","T"," ","*">>
txtSelectCount == <<"S","E","L","E","C","T"," ","C","O","U","N","T","(","*",")"," ","a","s"," ","t","o","t","a","l">>
txtLimit100 == <<"L","I","M","I","T"," ","1","0","0">>

\* the backquote character (one character of the text, not a word character)
Backquote == "backquote"

\* os.getenv("BQ_DATA_PROJECT_ID"), os.getenv("BQ_DATASET_ID")
project_id == <<"p">>
dataset_id == <<"d","s">>

\* full_table: the backquoted name project_id.dataset_id.table_name
FullTable(table_name) == <<Backquote>> \o project_id \o <<".">> \o dataset_id \o <<".">> \o table_name \o <<Backquote>>

\* sql.replace("{table}", ft).replace("TABLE_NAME", ft).replace("{{table}}", ft)
ReplacePlaceholders(sql, ft) == Replace(Replace(Replace(sql, phTable, ft), phTABLE_NAME, ft), phDoubleTable, ft)

\* The statement both dry_run_fix and execute_fix go on to use: qualifiers
\* stripped, placeholders replaced, bare table name qualified.
ResolveSql(fix_sql, table_name) ==
    LET s0 == Strip(fix_sql)
        s1 == SubQualified(s0, 2, FALSE, <<>>)
        s2 == SubQualified(s1, 1, TRUE, <<>>)
        s3 == ReplacePlaceholders(s2, FullTable(table_name))
    IN SubWord(s3, table_name, FullTable(table_name))

\* count_sql of dry_run_fix
CountSql(dry_run_sql) == Replace(Replace(dry_run_sql, txtSelectStar, txtSelectCount), txtLimit100, <<>>)

\* sql[where_idx:]
WhereClause(sql) == Slice(sql, Find(Upper(sql), kwWHERE) + 1, Len(sql))

\* f"SELECT * FROM {full_table} {where_clause} LIMIT 100"
PreviewSql(sql, table_name) == txtSelectStarFrom \o FullTable(table_name) \o <<" ">> \o WhereClause(sql) \o <<" ">> \o txtLimit100

\* dry_run_fix: ok1, ok2 are whether the data store runs the preview query
\* and the count query without raising.
dry_run_fix_unconverted_on_error(fix_sql, table_name, configured, ok1, ok2) ==
    IF ~configured
    THEN [tool |-> "dry_run_fix", status |-> "config_error", queries |-> <<>>, sql |-> <<>>]
    ELSE LET sql == ResolveSql(fix_sql, table_name)
             dry_run_sql == IF Contains(Upper(sql), kwWHERE) /\ ok1 THEN PreviewSql(sql, table_name) ELSE sql
         IN [tool |-> "dry_run_fix", status |-> IF ok1 /\ ok2 THEN "success" ELSE "error", queries |-> <<dry_run_sql, CountSql(dry_run_sql)>>, sql |-> sql]
dry_run_fix(fix_sql, table_name, configured, ok1, ok2) ==
    IF ~configured
    THEN [tool |-> "dry_run_fix", status |-> "config_error", queries |-> <<>>, sql |-> <<>>]
    ELSE LET sql == ResolveSql(fix_sql, table_name)
             isUpdate == Contains(Upper(sql), kwUPDATE)
             isDelete == Contains(Upper(sql), kwDELETE)
             hasWhere == Find(Upper(sql), kwWHERE) > -1
             dry_run_sql == IF isUpdate \/ isDelete THEN PreviewSql(sql, table_name) ELSE sql
         IN IF (isUpdate \/ isDelete) /\ ~hasWhere
            THEN [tool |-> "dry_run_fix", status |-> "invalid_sql", queries |-> <<>>, sql |-> sql]
            ELSE IF ~ok1
                 THEN [tool |-> "dry_run_fix", status |-> "error", queries |-> <<dry_run_sql>>, sql |-> sql]
                 ELSE IF ~ok2
                      THEN [tool |-> "dry_run_fix", status |-> "error", queries |-> <<dry_run_sql, CountSql(dry_run_sql)>>, sql |-> sql]
                      ELSE [tool |-> "dry_run_fix", status |-> "success", queries |-> <<dry_run_sql, CountSql(dry_run_sql)>>, sql |-> sql]

\* execute_fix: ok is whether the data store runs the statement without raising.
execute_fix(fix_sql, table_name, configured, ok) ==
    IF ~configured
    THEN [tool |-> "execute_fix", status |-> "config_error", queries |-> <<>>, sql |-> <<>>]
    ELSE LET sql == ResolveSql(fix_sql, table_name)
             isDml == Contains(Upper(sql), kwUPDATE) \/ Contains(Upper(sql), kwDELETE)
         IN IF isDml /\ ~Contains(Upper(sql), kwWHERE)
            THEN [tool |-> "execute_fix", status |-> "rejected", queries |-> <<>>, sql |-> sql]
            ELSE IF ok
                 THEN [tool |-> "execute_fix", status |-> "success", queries |-> <<sql>>, sql |-> sql]
                 ELSE [tool |-> "execute_fix", status |-> "failed", queries |-> <<sql>>, sql |-> sql]

\* validate_fix: ok is whether the rule query runs, violations the rows it returns.
validate_fix_partial_is_error(original_rule_sql, table_name, ok, violations) ==
    LET sql == ReplacePlaceholders(original_rule_sql, FullTable(table_name))
    IN [tool |-> "validate_fix", status |-> IF ok /\ violations = 0 THEN "success" ELSE "error", queries |-> <<sql>>, sql |-> sql, remaining_violations |-> 0]
validate_fix(original_rule_sql, table_name, ok, violations) ==
    LET sql == ReplacePlaceholders(original_rule_sql, FullTable(table_name))
    IN IF ~ok
       THEN [tool |-> "validate_fix", status |-> "error", queries |-> <<sql>>, sql |-> sql, remaining_violations |-> 0]
       ELSE [tool |-> "validate_fix", status |-> IF violations = 0 THEN "success" ELSE "partial", queries |-> <<sql>>, sql |-> sql, remaining_violations |-> violations]

\* create_jira_ticket: builds a ticket around the statement and hands it back
\* in its answer; it reads and writes no file.
create_jira_ticket(issue_summary, fix_sql) ==
    [tool |-> "create_jira_ticket", status |-> "ticket_created", queries |-> <<>>, sql |-> fix_sql, summary |-> issue_summary]

-----------------------------------------------------------------------------
(* Knowledge Bank (knowledge_bank/kb_manager.py).                          *)
(* A success rate is kept as the fraction in lowest terms that the float   *)
(* division yields; 0.0 is 0/1.                                            *)

MaxFixes == 2
MaxUpdates == 4
MaxDay == 1

Managers == {"m1", "m2"}
\* the callers of the ticket log
Callers == {"c1", "c2"}
\* the process-wide singleton of get_kb_manager()
Writers == {"m1"}
\* the pattern ids callers name, and the ones fixes are added under (a call
\* naming "P2" names a pattern the store does not hold)
PatternIds == {"P1", "P2"}
AddedPatternIds == {"P1"}
FixIds == {"F1", "F2"}

RECURSIVE GCD(_, _)
GCD(a, b) == IF b = 0 THEN a ELSE GCD(b, a % b)

Fraction(n, d) == [num |-> n \div GCD(n, d), den |-> d \div GCD(n, d)]
Zero == [num |-> 0, den |-> 1]
One == [num |-> 1, den |-> 1]
\* x >= y on fractions
Geq(x, y) == x.num * y.den >= y.num * x.den

\* metadata.auto_approve_threshold (0.85) and metadata.min_approval_count_for_auto
ThresholdPercent == 85
MinApprovalCount == 3
auto_approve_threshold == Fraction(ThresholdPercent, 100)

\* fix['approval_count'] / total if total > 0 else 0.0
SuccessRateWrongCount(approval_count, rejection_count) == IF approval_count + rejection_count > 0 THEN Fraction(rejection_count, approval_count + rejection_count) ELSE Zero
SuccessRate(approval_count, rejection_count) == IF approval_count + rejection_count > 0 THEN Fraction(approval_count, approval_count + rejection_count) ELSE Zero

\* fix['success_rate'] >= auto_threshold and fix['approval_count'] >= min_approvals
AutoApproveStrict(success_rate, approval_count, threshold, min_approvals) == Geq(success_rate, threshold) /\ approval_count > min_approvals
AutoApprove(success_rate, approval_count, threshold, min_approvals) == Geq(success_rate, threshold) /\ approval_count >= min_approvals

\* fix_data of add_new_fix.  The counters and derived fields are optional
\* keys (defaults 0, 0, 0.0, False): a payload is a fix without history, with
\* the default derived fields or with success_rate 1.0 and auto_approve True,
\* or a fix with six approvals, success_rate 1.0 and auto_approve True.
\* complete is whether the required keys (fix_id, fix_type, action,
\* description) are all there.  description is the text a new pattern is
\* created with (fix_data.get('description', '')).
descFutureDobCheck == <<"f","u","t","u","r","e"," ","d","a","t","e"," ","o","f"," ","b","i","r","t","h"," ","c","h","e","c","k">>
PayloadFields == {[approval_count |-> 0, success_rate |-> Zero, auto_approve |-> FALSE],
                  [approval_count |-> 0, success_rate |-> One, auto_approve |-> TRUE],
                  [approval_count |-> 6, success_rate |-> One, auto_approve |-> TRUE]}
CompletePayloads == {[fix_id |-> f, approval_count |-> d.approval_count, rejection_count |-> 0, success_rate |-> d.success_rate, auto_approve |-> d.auto_approve, description |-> descFutureDobCheck, complete |-> TRUE] : f \in FixIds, d \in PayloadFields}
IncompletePayload == [fix_id |-> "F1", approval_count |-> 0, rejection_count |-> 0, success_rate |-> Zero, auto_approve |-> FALSE, description |-> <<>>, complete |-> FALSE]
Payloads == CompletePayloads \cup {IncompletePayload}

EmptyStore == [metadata |-> [total_patterns |-> 0, total_fixes |-> 0, last_updated |-> 0,
                             auto_approve_threshold |-> auto_approve_threshold,
                             min_approval_count_for_auto |-> MinApprovalCount],
               issue_patterns |-> <<>>]

\* self.load(): the cached snapshot, read from the file on first use
loadFromFile(m) == kb_file
load(m) == IF kb_data[m] = None THEN kb_file ELSE The(kb_data[m])

\* position of pattern_id in issue_patterns (insertion order), 0 when absent
PatternIndex(kb, pattern_id) == IF \E i \in DOMAIN kb.issue_patterns : kb.issue_patterns[i].pattern_id = pattern_id THEN CHOOSE i \in DOMAIN kb.issue_patterns : kb.issue_patterns[i].pattern_id = pattern_id ELSE 0

\* position of the first fix of the pattern with this fix_id, 0 when absent
FixIndex(fixes, fix_id) == IF \E i \in DOMAIN fixes : fixes[i].fix_id = fix_id THEN CHOOSE i \in DOMAIN fixes : fixes[i].fix_id = fix_id /\ \A j \in 1..(i-1) : fixes[j].fix_id # fix_id ELSE 0

RECURSIVE SumLens(_)
SumLens(patterns) == IF patterns = <<>> THEN 0 ELSE Len(Head(patterns).historical_fixes) + SumLens(Tail(patterns))

\* self.save(): stamp last_updated and write the snapshot to the file
Stamped(kb) == [kb EXCEPT !.metadata.last_updated = today]

\* KnowledgeBankManager.get_all_patterns: loads the store into the cache
get_all_patterns(m) ==
    /\ kb_data[m] = None
    /\ kb_data' = [kb_data EXCEPT ![m] = Some(kb_file)]
    /\ kb_match' = None
    /\ UNCHANGED <<kb_file, today, outcomes>>
    /\ UNCHANGED kb_call
    /\ UNCHANGED <<uiVars, jiraVars>>

\* the midnight between two calls
Tick ==
    /\ today < MaxDay
    /\ today' = today + 1
    /\ kb_match' = None
    /\ UNCHANGED <<kb_file, kb_data, outcomes>>
    /\ UNCHANGED kb_call
    /\ UNCHANGED <<uiVars, jiraVars>>

NewPattern(pattern_id, fix_data) == [pattern_id |-> pattern_id, description |-> fix_data.description, historical_fixes |-> <<>>]

\* the stored fix; the fields no operation reads (fix_type, action,
\* description, sql_template, last_used) are left out
NewFix(fix_data) == [fix_id |-> fix_data.fix_id,
                     success_rate |-> fix_data.success_rate,
                     approval_count |-> fix_data.approval_count,
                     rejection_count |-> fix_data.rejection_count,
                     auto_approve |-> fix_data.auto_approve]

\* "Update metadata" of add_new_fix
WithCounts(kb) == [kb EXCEPT !.metadata.total_patterns = Len(kb.issue_patterns), !.metadata.total_fixes = SumLens(kb.issue_patterns)]

\* KnowledgeBankManager.add_new_fix.  A payload without a required key
\* raises KeyError after the pattern was created in the cached snapshot.
add_new_fix(m, pattern_id, fix_data) ==
    LET kb == load(m)
        withPattern == IF PatternIndex(kb, pattern_id) = 0
                       THEN [kb EXCEPT !.issue_patterns = Append(@, NewPattern(pattern_id, fix_data))]
                       ELSE kb
        p == PatternIndex(withPattern, pattern_id)
        withFix == [withPattern EXCEPT !.issue_patterns[p].historical_fixes = Append(@, NewFix(fix_data))]
        counted == WithCounts(withFix)
    IN /\ SumLens(kb.issue_patterns) < MaxFixes
       /\ IF fix_data.complete
          THEN /\ kb_data' = [kb_data EXCEPT ![m] = Some(Stamped(counted))]
               /\ kb_file' = Stamped(counted)
          ELSE /\ kb_data' = [kb_data EXCEPT ![m] = Some(withPattern)]
               /\ kb_file' = kb_file
       /\ kb_match' = None
       /\ UNCHANGED <<today, outcomes>>
       /\ kb_call' = [kb_call EXCEPT ![m] = None]
       /\ UNCHANGED <<uiVars, jiraVars>>

\* the fix after one recorded outcome
Outcome(fix, approved, metadata) ==
    LET a == IF approved THEN fix.approval_count + 1 ELSE fix.approval_count
        r == IF approved THEN fix.rejection_count ELSE fix.rejection_count + 1
    IN [fix EXCEPT !.approval_count = a,
                   !.rejection_count = r,
                   !.success_rate = SuccessRate(a, r),
                   !.auto_approve = AutoApprove(SuccessRate(a, r), a, metadata.auto_approve_threshold, metadata.min_approval_count_for_auto)]

\* KnowledgeBankManager.update_fix_stats
update_fix_stats(m, pattern_id, fix_id, approved) ==
    LET kb == load(m)
        p == PatternIndex(kb, pattern_id)
        i == IF p = 0 THEN 0 ELSE FixIndex(kb.issue_patterns[p].historical_fixes, fix_id)
        updated == IF i = 0 THEN kb ELSE [kb EXCEPT !.issue_patterns[p].historical_fixes[i] = Outcome(@, approved, kb.metadata)]
    IN /\ i # 0 => outcomes < MaxUpdates
       /\ outcomes' = IF i # 0 THEN outcomes + 1 ELSE outcomes
       /\ IF p = 0
          THEN /\ kb_data' = [kb_data EXCEPT ![m] = Some(kb)]
               /\ kb_file' = kb_file
          ELSE /\ kb_data' = [kb_data EXCEPT ![m] = Some(Stamped(updated))]
               /\ kb_file' = Stamped(updated)
       /\ kb_match' = None
       /\ UNCHANGED today
       /\ kb_call' = [kb_call EXCEPT ![m] = None]
       /\ UNCHANGED <<uiVars, jiraVars>>

\* outcomes recorded by overlapping calls
MaxOverlappedUpdates == 2

\* A mutating call in two steps, so that calls of two managers can overlap:
\* kb = self.load() at its start, the change and self.save() at its end.
add_new_fix_load(m, pattern_id, fix_data) ==
    /\ kb_call[m] = None
    /\ SumLens(load(m).issue_patterns) < MaxFixes
    /\ kb_data' = [kb_data EXCEPT ![m] = Some(load(m))]
    /\ kb_call' = [kb_call EXCEPT ![m] = Some([op |-> "add_new_fix", pattern_id |-> pattern_id, fix_data |-> fix_data])]
    /\ kb_match' = None
    /\ UNCHANGED <<kb_file, today, outcomes>>
    /\ UNCHANGED <<uiVars, jiraVars>>

add_new_fix_save(m) ==
    /\ kb_call[m] # None
    /\ The(kb_call[m]).op = "add_new_fix"
    /\ add_new_fix(m, The(kb_call[m]).pattern_id, The(kb_call[m]).fix_data)

update_fix_stats_load(m, pattern_id, fix_id, approved) ==
    /\ kb_call[m] = None
    /\ outcomes + Cardinality({w \in Managers : kb_call[w] # None /\ The(kb_call[w]).op = "update_fix_stats"}) < MaxOverlappedUpdates
    /\ kb_data' = [kb_data EXCEPT ![m] = Some(load(m))]
    /\ kb_call' = [kb_call EXCEPT ![m] = Some([op |-> "update_fix_stats", pattern_id |-> pattern_id, fix_id |-> fix_id, approved |-> approved])]
    /\ kb_match' = None
    /\ UNCHANGED <<kb_file, today, outcomes>>
    /\ UNCHANGED <<uiVars, jiraVars>>

update_fix_stats_save(m) ==
    /\ kb_call[m] # None
    /\ The(kb_call[m]).op = "update_fix_stats"
    /\ update_fix_stats(m, The(kb_call[m]).pattern_id, The(kb_call[m]).fix_id, The(kb_call[m]).approved)

KBNext ==
    \/ \E m \in Writers : get_all_patterns(m)
    \/ Tick
    \/ \E m \in Writers, pattern_id \in AddedPatternIds, fix_data \in Payloads : add_new_fix(m, pattern_id, fix_data)
    \/ \E m \in Writers, pattern_id \in PatternIds, fix_id \in FixIds, approved \in BOOLEAN : update_fix_stats(m, pattern_id, fix_id, approved)

KBIdle ==
    /\ kb_file = EmptyStore
    /\ kb_data = [m \in Managers |-> None]
    /\ today = 0
    /\ outcomes = 0
    /\ kb_match = None
    /\ kb_call = [m \in Managers |-> None]
    /\ jira_file = None
    /\ jira_data = [c \in Callers |-> None]
    /\ jira_return = None

-----------------------------------------------------------------------------
(* Fix statements and detection rules the Treatment agent can propose.     *)
(* A statement is kept with its parts: the text before the table           *)
(* reference, the reference, the text after it, and the statement's own    *)
(* scoping clause (empty when it has none).                                *)

txtUpdate == <<"U","P","D","A","T","E"," ">>
txtSetX == <<" ","S","E","T"," ","x"," ","="," ">>
txtDeleteFrom == <<"D","E","L","E","T","E"," ","F","R","O","M"," ">>
txtInsertInto == <<"I","N","S","E","R","T"," ","I","N","T","O"," ">>
txtValues == <<" ","V","A","L","U","E","S"," ","(","1",")">>
txtOwnWhereUpper == <<"W","H","E","R","E"," ","y"," ",">"," ","0">>
txtOwnWhereLower == <<"w","h","e","r","e"," ","y"," ",">"," ","0">>
exprOne == <<"1">>
exprLiteral == <<"'","n","o","w","h","e","r","e","'">>
exprSubquery == <<"(","S","E","L","E","C","T"," ","1"," ","F","R","O","M"," ","u"," ","W","H","E","R","E"," ","k"," ","="," ","1",")">>
refBare == <<"t">>
refDataset == <<"o","l","d",".","t">>
refProject == <<"p","0",".","o","l","d",".","t">>

TableNames == {<<"t">>}
Placeholders == {phTable, phTABLE_NAME, phDoubleTable}
TableRefs == Placeholders \cup {refBare, refDataset, refProject}
SetExprs == {exprOne, exprLiteral, exprSubquery}
OwnWheres == {<<>>, txtOwnWhereUpper, txtOwnWhereLower}

WithSpace(clause) == IF clause = <<>> THEN <<>> ELSE <<" ">> \o clause

UpdateStatements == {[verb |-> "UPDATE", pre |-> txtUpdate, ref |-> r, post |-> txtSetX \o e \o WithSpace(w), pred |-> w] : r \in TableRefs, e \in SetExprs, w \in OwnWheres}
DeleteStatements == {[verb |-> "DELETE", pre |-> txtDeleteFrom, ref |-> r, post |-> WithSpace(w), pred |-> w] : r \in TableRefs, w \in OwnWheres}
InsertStatements == {[verb |-> "INSERT", pre |-> txtInsertInto, ref |-> r, post |-> txtValues, pred |-> <<>>] : r \in TableRefs}
FixStatements == UpdateStatements \cup DeleteStatements \cup InsertStatements

Text(stmt) == stmt.pre \o stmt.ref \o stmt.post

\* the detection rule of the issue: one row per violation
DetectionRule == txtSelectStarFrom \o phTable \o <<" ">> \o txtOwnWhereUpper

-----------------------------------------------------------------------------
(* Remediator flow of the Streamlit app.                                   *)

MaxAttempts == 2
MaxViolations == 1

\* the fixes offered for approval in the Treatment tab
SuggestedFixes == {f \in FixStatements : f.ref = phTable /\ f.pred # txtOwnWhereLower /\ (f.verb = "UPDATE" => f.post \in {txtSetX \o exprOne \o WithSpace(f.pred), txtSetX \o exprLiteral}) /\ (f.verb = "DELETE" => f.pred # <<>>)}

Tabs == {"Identifier", "Treatment", "Remediator"}

\* preprocessed_sql of the Remediator tab: qualifiers rewritten to the
\* configured project and dataset before the statement is handed to the agent
Preprocess(original_sql) ==
    LET three == {SubQualified(s, 2, FALSE, project_id \o <<".">> \o dataset_id \o <<".">>) : s \in {original_sql}}
        two == {SubQualified(s, 1, TRUE, dataset_id \o <<".">>) : s \in three}
    IN CHOOSE preprocessed_sql \in two : TRUE

\* The statements the tools can be handed, and the tools tabulated over them
\* (each entry is the value of the tool function above on that input).
Preprocessed == [f \in FixStatements |-> Preprocess(Text(f))]

ToolInputs == {Text(f) : f \in FixStatements} \cup {Preprocessed[f] : f \in FixStatements}

DryRunResult == [s \in ToolInputs, t \in TableNames, c \in BOOLEAN, ok1 \in BOOLEAN, ok2 \in BOOLEAN |-> dry_run_fix(s, t, c, ok1, ok2)]

ExecuteResult == [s \in ToolInputs, t \in TableNames, c \in BOOLEAN, ok \in BOOLEAN |-> execute_fix(s, t, c, ok)]

ValidateResult == [t \in TableNames, ok \in BOOLEAN, n \in 0..MaxViolations |-> validate_fix(DetectionRule, t, ok, n)]

NoHistory == [previewed |-> {}, applied |-> {}, verified |-> {}]

\* a tool call handed a statement to the data store
Sent(call) == call.queries # <<>>

\* history after the tool calls cs made for attempt a: an applied attempt is
\* kept with whether a preview of it had run before its statement was sent,
\* a verified one with whether its apply had been sent before
RECURSIVE Recorded(_, _, _)
Recorded(h, cs, a) ==
    IF cs = <<>> THEN h
    ELSE LET c == Head(cs)
             h1 == CASE c.tool = "dry_run_fix" -> [h EXCEPT !.previewed = @ \cup {a}]
                     [] c.tool = "execute_fix" /\ Sent(c) -> [h EXCEPT !.applied = @ \cup {[attempt |-> a, previewed |-> a \in h.previewed]}]
                     [] c.tool = "validate_fix" -> [h EXCEPT !.verified = @ \cup {[attempt |-> a, applied |-> \E r \in h.applied : r.attempt = a]}]
                     [] OTHER -> h
         IN Recorded(h1, Tail(cs), a)

\* the Remediator tab shows the workflow of an approved fix
OnRemediator == active_tab = "Remediator" /\ approved_fix # None

\* Step 2 (batch size, confirmation, Execute Fix) is rendered
ExecuteStepShown == OnRemediator /\ ~skip_dry_run /\ dry_run_results # None

\* execute_disabled of the Execute Fix button
ExecuteDisabled == ~(confirm_execute /\ (skip_dry_run \/ dry_run_results # None))

\* sidebar navigation
SwitchTab(tab) ==
    /\ tab # active_tab
    /\ active_tab' = tab
    /\ confirm_execute' = FALSE
    /\ skip_dry_run' = FALSE
    /\ calls' = <<>>
    /\ UNCHANGED <<approved_fix, dry_run_results, execution_results, grouped_issues, history, attempts, env_configured>>
    /\ UNCHANGED <<kbVars, jiraVars>>

\* Treatment tab: "Group Issues & Generate Remediation Strategies"
GroupIssues ==
    /\ active_tab = "Treatment"
    /\ ~grouped_issues
    /\ grouped_issues' = TRUE
    /\ calls' = <<>>
    /\ UNCHANGED <<active_tab, approved_fix, dry_run_results, execution_results, skip_dry_run, confirm_execute, history, attempts, env_configured>>
    /\ UNCHANGED <<kbVars, jiraVars>>

\* Treatment tab: "Clear Results"
ClearResults ==
    /\ active_tab = "Treatment"
    /\ grouped_issues
    /\ grouped_issues' = FALSE
    /\ calls' = <<>>
    /\ UNCHANGED <<active_tab, approved_fix, dry_run_results, execution_results, skip_dry_run, confirm_execute, history, attempts, env_configured>>
    /\ UNCHANGED <<kbVars, jiraVars>>

\* Treatment tab: "Approve Fix"
ApproveFix(stmt, table_name) ==
    /\ active_tab = "Treatment"
    /\ grouped_issues
    /\ attempts < MaxAttempts
    /\ attempts' = attempts + 1
    /\ approved_fix' = Some([fix |-> stmt, rule |-> DetectionRule, table_name |-> table_name, timestamp |-> attempts + 1])
    /\ active_tab' = "Remediator"
    /\ confirm_execute' = FALSE
    /\ skip_dry_run' = FALSE
    /\ calls' = <<>>
    /\ UNCHANGED <<dry_run_results, execution_results, grouped_issues, history, env_configured>>
    /\ UNCHANGED <<kbVars, jiraVars>>

\* Remediator tab: the "skip dry run" checkbox
ToggleSkipDryRun ==
    /\ OnRemediator
    /\ skip_dry_run' = ~skip_dry_run
    /\ confirm_execute' = FALSE
    /\ calls' = <<>>
    /\ UNCHANGED <<active_tab, approved_fix, dry_run_results, execution_results, grouped_issues, history, attempts, env_configured>>
    /\ UNCHANGED <<kbVars, jiraVars>>

\* Remediator tab: the confirmation checkbox
ToggleConfirm ==
    /\ ExecuteStepShown
    /\ confirm_execute' = ~confirm_execute
    /\ calls' = <<>>
    /\ UNCHANGED <<active_tab, approved_fix, dry_run_results, execution_results, skip_dry_run, grouped_issues, history, attempts, env_configured>>
    /\ UNCHANGED <<kbVars, jiraVars>>

\* Remediator tab: "Run Dry Run".  The agent is asked to call dry_run_fix
\* with the preprocessed statement; its answer becomes dry_run_results.
RunDryRun(ok1, ok2) ==
    /\ OnRemediator
    /\ ~skip_dry_run
    /\ calls' = <<DryRunResult[Preprocessed[The(approved_fix).fix], The(approved_fix).table_name, env_configured, ok1, ok2]>>
    /\ history' = Recorded(history, calls', The(approved_fix).timestamp)
    /\ dry_run_results' = Some([status |-> calls'[1].status, of |-> The(approved_fix).timestamp])
    /\ UNCHANGED <<active_tab, approved_fix, execution_results, skip_dry_run, confirm_execute, grouped_issues, attempts, env_configured>>
    /\ UNCHANGED <<kbVars, jiraVars>>

\* Remediator tab: "Cancel Fix"
CancelFix ==
    /\ OnRemediator
    /\ approved_fix' = None
    /\ dry_run_results' = None
    /\ execution_results' = None
    /\ confirm_execute' = FALSE
    /\ skip_dry_run' = FALSE
    /\ calls' = <<>>
    /\ UNCHANGED <<active_tab, grouped_issues, history, attempts, env_configured>>
    /\ UNCHANGED <<kbVars, jiraVars>>

\* the tool calls the agent makes for the execute prompt
\* (validate after a successful apply, a ticket after one that did not succeed:
\* both are asked of the agent, neither is enforced)
AgentExecutes(res, val, ticket, validates, escalates) ==
    IF res.status = "success"
    THEN (IF validates THEN <<res, val>> ELSE <<res>>)
    ELSE (IF escalates THEN <<res, ticket>> ELSE <<res>>)

\* Remediator tab: "Execute Fix".  The agent is asked to call execute_fix and
\* then validate_fix; whether it goes on to validate after a successful
\* apply is the agent's choice (validates), and so is whether it calls
\* create_jira_ticket after an apply that did not succeed (escalates).
ExecuteFix(ok, validates, escalates, vok, violations) ==
    /\ ExecuteStepShown
    /\ ~ExecuteDisabled
    /\ calls' = AgentExecutes(ExecuteResult[Preprocessed[The(approved_fix).fix], The(approved_fix).table_name, env_configured, ok],
                             ValidateResult[The(approved_fix).table_name, vok, violations],
                             create_jira_ticket("Fix failed", Preprocessed[The(approved_fix).fix]), validates, escalates)
    /\ history' = Recorded(history, calls', The(approved_fix).timestamp)
    /\ execution_results' = Some([execution_status |-> IF calls'[1].status = "success" THEN "success" ELSE "failed",
                                  validation_results |-> IF Len(calls') = 2 /\ calls'[2].tool = "validate_fix" THEN Some(calls'[2].status) ELSE None,
                                  jira_ticket |-> Len(calls') = 2 /\ calls'[2].tool = "create_jira_ticket",
                                  of |-> The(approved_fix).timestamp])
    /\ UNCHANGED <<active_tab, approved_fix, dry_run_results, skip_dry_run, confirm_execute, grouped_issues, attempts, env_configured>>
    /\ UNCHANGED <<kbVars, jiraVars>>

\* Remediator tab: "Execute Another Fix"
ExecuteAnotherFix ==
    /\ OnRemediator
    /\ execution_results # None
    /\ dry_run_results # None
    /\ approved_fix' = None
    /\ dry_run_results' = None
    /\ execution_results' = None
    /\ confirm_execute' = FALSE
    /\ skip_dry_run' = FALSE
    /\ calls' = <<>>
    /\ UNCHANGED <<active_tab, grouped_issues, history, attempts, env_configured>>
    /\ UNCHANGED <<kbVars, jiraVars>>

Init ==
    /\ active_tab = "Identifier"
    /\ approved_fix = None
    /\ dry_run_results = None
    /\ execution_results = None
    /\ skip_dry_run = FALSE
    /\ confirm_execute = FALSE
    /\ grouped_issues = FALSE
    /\ calls = <<>>
    /\ history = NoHistory
    /\ attempts = 0
    /\ env_configured \in BOOLEAN
    /\ KBIdle

Next ==
    \/ \E tab \in Tabs : SwitchTab(tab)
    \/ GroupIssues
    \/ ClearResults
    \/ \E stmt \in SuggestedFixes, table_name \in TableNames : ApproveFix(stmt, table_name)
    \/ ToggleSkipDryRun
    \/ ToggleConfirm
    \/ \E ok1, ok2 \in BOOLEAN : RunDryRun(ok1, ok2)
    \/ CancelFix
    \/ \E ok, validates, escalates, vok \in BOOLEAN, violations \in 0..MaxViolations : ExecuteFix(ok, validates, escalates, vok, violations)
    \/ ExecuteAnotherFix

Spec == Init /\ [][Next]_vars

\* the Knowledge Bank on its own, used through the singleton manager
UIIdle ==
    /\ active_tab = "Identifier"
    /\ approved_fix = None
    /\ dry_run_results = None
    /\ execution_results = None
    /\ skip_dry_run = FALSE
    /\ confirm_execute = FALSE
    /\ grouped_issues = FALSE
    /\ calls = <<>>
    /\ history = NoHistory
    /\ attempts = 0
    /\ env_configured = TRUE

KBInit == UIIdle /\ KBIdle

SpecKB == KBInit /\ [][KBNext]_vars

\* two managers over one store file (two processes, each with its own
\* get_kb_manager() singleton) adding fixes F1 and F2 under one pattern and
\* recording outcomes
InstancePayloads == {fix_data \in CompletePayloads : fix_data.approval_count = 0 /\ ~fix_data.auto_approve}

\* their calls strictly one after the other
InstancesNext ==
    \/ \E m \in Managers, fix_data \in InstancePayloads : add_new_fix(m, "P1", fix_data)
    \/ \E m \in Managers, fix_id \in FixIds, approved \in BOOLEAN : update_fix_stats(m, "P1", fix_id, approved)

SpecInstances == KBInit /\ [][InstancesNext]_vars

\* their calls overlapping
ConcurrentNext ==
    \/ \E m \in Managers, fix_data \in InstancePayloads : add_new_fix_load(m, "P1", fix_data)
    \/ \E m \in Managers : add_new_fix_save(m)
    \/ \E m \in Managers, fix_id \in FixIds, approved \in BOOLEAN : update_fix_stats_load(m, "P1", fix_id, approved)
    \/ \E m \in Managers : update_fix_stats_save(m)

SpecConcurrent == KBInit /\ [][ConcurrentNext]_vars

\* add_new_fix calls on their own, under any of the pattern ids
AddNext ==
    \/ Tick
    \/ \E m \in Writers, pattern_id \in PatternIds, fix_data \in Payloads : add_new_fix(m, pattern_id, fix_data)

SpecAdd == KBInit /\ [][AddNext]_vars

-----------------------------------------------------------------------------
(* The matcher of the Knowledge Bank (search_similar_issue).               *)

\* str.lower()
LowerChar(c) == IF c \in Range(UpperLetters) THEN LowerLetters[CHOOSE i \in 1..26 : UpperLetters[i] = c] ELSE c
Lower(s) == [i \in 1..Len(s) |-> LowerChar(s[i])]

\* end of the run of non-whitespace characters starting at i
RECURSIVE WordEnd(_, _)
WordEnd(s, i) == IF i <= Len(s) /\ s[i] \notin SpaceChars THEN WordEnd(s, i + 1) ELSE i - 1

\* str.split(): the words between runs of whitespace, none of them empty
RECURSIVE SplitFrom(_, _)
SplitFrom(s, i) == IF SkipSpace(s, i) > Len(s) THEN <<>> ELSE <<Slice(s, SkipSpace(s, i), WordEnd(s, SkipSpace(s, i)))>> \o SplitFrom(s, WordEnd(s, SkipSpace(s, i)) + 1)
Split(s) == SplitFrom(s, 1)

\* set(description.lower().split())
Keywords(description) == Range(Split(Lower(description)))

\* descriptions patterns are created with, and the descriptions searched for
descCase == <<"D","a","t","e"," ","O","f"," "," ","B","i","r","t","h">>
descLower == <<"d","a","t","e"," ","o","f"," ","b","i","r","t","h">>
descTen == <<"a"," ","b"," ","c"," ","d"," ","e"," ","f"," ","g"," ","h"," ","i"," ","j">>
queryFutureDob == <<"d","a","t","e"," ","o","f"," ","b","i","r","t","h"," ","i","n"," ","f","u","t","u","r","e">>
queryBlank == <<" ">>
queryThree == <<"a"," ","b"," ","c">>
queryCheck == <<"c","h","e","c","k">>
queryBirth == <<"b","i","r","t","h">>
Descriptions == {descFutureDobCheck, descCase, descLower, descTen, <<>>}
Queries == Descriptions \cup {queryFutureDob, queryBlank, queryThree, queryCheck, queryBirth}

KeywordsOf == [d \in Queries |-> Keywords(d)]

\* the 30% threshold
similarity_threshold == Fraction(3, 10)

Greater(x, y) == x.num * y.den > y.num * x.den

\* Jaccard similarity of two keyword sets
SimilarityOverSum(issue_keywords, pattern_keywords) == IF issue_keywords \cup pattern_keywords # {} THEN Fraction(Cardinality(issue_keywords \cap pattern_keywords), Cardinality(issue_keywords) + Cardinality(pattern_keywords)) ELSE Zero
SimilarityOverQuery(issue_keywords, pattern_keywords) == IF issue_keywords # {} THEN Fraction(Cardinality(issue_keywords \cap pattern_keywords), Cardinality(issue_keywords)) ELSE Zero
SimilarityOneWhenEmpty(issue_keywords, pattern_keywords) == IF issue_keywords \cup pattern_keywords # {} THEN Fraction(Cardinality(issue_keywords \cap pattern_keywords), Cardinality(issue_keywords \cup pattern_keywords)) ELSE One
Similarity(issue_keywords, pattern_keywords) == IF issue_keywords \cup pattern_keywords # {} THEN Fraction(Cardinality(issue_keywords \cap pattern_keywords), Cardinality(issue_keywords \cup pattern_keywords)) ELSE Zero

\* whether the loop replaces best_match by a pattern of this similarity
BeatsOrTies(similarity, best_similarity) == ~Greater(best_similarity, similarity) /\ Greater(similarity, similarity_threshold)
Beats(similarity, best_similarity) == Greater(similarity, best_similarity) /\ Greater(similarity, similarity_threshold)

BestMatch(pattern, similarity) == Some([pattern_id |-> pattern.pattern_id, description |-> pattern.description, similarity |-> similarity, historical_fixes |-> pattern.historical_fixes])

\* the loop over kb['issue_patterns'].items() from pattern i on
RECURSIVE SearchFrom(_, _, _, _, _)
SearchFrom(patterns, issue_keywords, i, best_match, best_similarity) ==
    IF i > Len(patterns) THEN best_match
    ELSE IF Beats(Similarity(issue_keywords, KeywordsOf[patterns[i].description]), best_similarity)
         THEN SearchFrom(patterns, issue_keywords, i + 1, BestMatch(patterns[i], Similarity(issue_keywords, KeywordsOf[patterns[i].description])), Similarity(issue_keywords, KeywordsOf[patterns[i].description]))
         ELSE SearchFrom(patterns, issue_keywords, i + 1, best_match, best_similarity)

\* KnowledgeBankManager.search_similar_issue
search_similar_issue(m, issue_description) ==
    /\ kb_data' = [kb_data EXCEPT ![m] = Some(load(m))]
    /\ kb_match' = Some([issue_description |-> issue_description,
                         best_match |-> SearchFrom(load(m).issue_patterns, KeywordsOf[issue_description], 1, None, Zero)])
    /\ UNCHANGED <<kb_file, today, outcomes>>
    /\ UNCHANGED kb_call
    /\ UNCHANGED <<uiVars, jiraVars>>

\* fixes saved under descriptions of their own
SearchPatternIds == PatternIds \cup {"P3"}
SearchPayloads == {[fix_id |-> "F1", approval_count |-> 0, rejection_count |-> 0, success_rate |-> Zero, auto_approve |-> FALSE, description |-> d, complete |-> TRUE] : d \in Descriptions}

SearchNext ==
    \/ \E m \in Writers, pattern_id \in SearchPatternIds, fix_data \in SearchPayloads : add_new_fix(m, pattern_id, fix_data)
    \/ \E m \in Writers, issue_description \in Queries : search_similar_issue(m, issue_description)

SpecSearch == KBInit /\ [][SearchNext]_vars

-----------------------------------------------------------------------------
(* Ticket log (jira_mock/ticket_manager.py).  Every call loads the whole   *)
(* file, changes the loaded value and writes the whole value back.         *)

MaxTickets == 2
MaxComments == 1

\* the summary of the tickets created one after the other, and those of
\* the tickets created by overlapping calls
SequentialSummaries == {"Future dates of birth"}
Summaries == SequentialSummaries \cup {"Negative premiums"}
\* fix_sql: not given, the empty string, or a statement
FixSqls == {None, Some(""), Some("UPDATE policies SET premium = 0 WHERE premium < 0")}
NewStatuses == {"IN_PROGRESS", "RESOLVED"}
CommentTexts == {"Reviewed"}

DigitChars == <<"0", "1", "2", "3", "4", "5", "6", "7", "8", "9">>

\* str(n) for n >= 0
RECURSIVE Decimal(_)
Decimal(n) == IF n < 10 THEN <<DigitChars[n + 1]>> ELSE Decimal(n \div 10) \o <<DigitChars[(n % 10) + 1]>>

\* the 0{width}d format: zeros on the left up to the width, never cut
RECURSIVE ZeroPadded(_, _)
ZeroPadded(digits, width) == IF Len(digits) >= width THEN digits ELSE ZeroPadded(<<"0">> \o digits, width)

\* f"DQ-{ticket_num:04d}"
FormatTicketId(ticket_num) == <<"D", "Q", "-">> \o ZeroPadded(Decimal(ticket_num), 4)

\* load_tickets: the file's content, or an empty log when there is no file
load_tickets ==
    IF jira_file = None
    THEN [tickets |-> <<>>, metadata |-> [last_ticket_id |-> 0, created_at |-> today]]
    ELSE The(jira_file)

\* the number create_ticket gives its ticket
NextTicketNumStale(data) == data.metadata.last_ticket_id
NextTicketNum(data) == data.metadata.last_ticket_id + 1

\* the ticket create_ticket builds
NewTicket(ticket_num, summary, fix_sql) ==
    [ticket_id |-> FormatTicketId(ticket_num),
     summary |-> summary,
     status |-> "OPEN",
     created_at |-> today,
     updated_at |-> None,
     comments |-> <<>>,
     attachment |-> IF fix_sql # None /\ The(fix_sql) # "" THEN Some([name |-> "fix_sql.sql", content |-> The(fix_sql)]) ELSE None]

\* the True or False that update_ticket_status and add_comment return
Found(found) == [found |-> found]

\* position of the first ticket with this id, 0 when there is none
FirstTicketOrLast(tickets, ticket_id) ==
    IF \E i \in DOMAIN tickets : tickets[i].ticket_id = ticket_id
    THEN CHOOSE i \in DOMAIN tickets : tickets[i].ticket_id = ticket_id /\ \A j \in 1..(i - 1) : tickets[j].ticket_id # ticket_id
    ELSE Len(tickets)
FirstTicket(tickets, ticket_id) ==
    IF \E i \in DOMAIN tickets : tickets[i].ticket_id = ticket_id
    THEN CHOOSE i \in DOMAIN tickets : tickets[i].ticket_id = ticket_id /\ \A j \in 1..(i - 1) : tickets[j].ticket_id # ticket_id
    ELSE 0

\* ticket["status"] = new_status; ticket["updated_at"] = now
StatusSetDroppingComments(ticket, new_status) == [ticket EXCEPT !.status = new_status, !.updated_at = Some(today), !.comments = <<>>]
StatusSet(ticket, new_status) == [ticket EXCEPT !.status = new_status, !.updated_at = Some(today)]

create_ticket(summary, fix_sql) ==
    /\ load_tickets.metadata.last_ticket_id < MaxTickets
    /\ jira_return' = Some(NewTicket(NextTicketNum(load_tickets), summary, fix_sql))
    /\ jira_file' = Some([load_tickets EXCEPT !.tickets = Append(@, The(jira_return')),
                                              !.metadata.last_ticket_id = NextTicketNum(load_tickets)])
    /\ UNCHANGED <<uiVars, kbVars, jira_data>>

update_ticket_status(ticket_id, new_status) ==
    /\ IF FirstTicket(load_tickets.tickets, ticket_id) = 0
       THEN /\ jira_return' = Some(Found(FALSE))
            /\ UNCHANGED jira_file
       ELSE /\ jira_return' = Some(Found(TRUE))
            /\ jira_file' = Some([load_tickets EXCEPT !.tickets[FirstTicket(load_tickets.tickets, ticket_id)] = StatusSet(@, new_status)])
    /\ UNCHANGED <<uiVars, kbVars, jira_data>>

add_comment(ticket_id, comment, author) ==
    /\ IF FirstTicket(load_tickets.tickets, ticket_id) = 0
       THEN /\ jira_return' = Some(Found(FALSE))
            /\ UNCHANGED jira_file
       ELSE /\ Len(load_tickets.tickets[FirstTicket(load_tickets.tickets, ticket_id)].comments) < MaxComments
            /\ jira_return' = Some(Found(TRUE))
            /\ jira_file' = Some([load_tickets EXCEPT !.tickets[FirstTicket(load_tickets.tickets, ticket_id)].comments =
                                      Append(@, [author |-> author, text |-> comment, created_at |-> today])])
    /\ UNCHANGED <<uiVars, kbVars, jira_data>>

\* create_ticket in two steps, so that the calls of two callers can overlap:
\* data = load_tickets() at its start, append and save_tickets(data) at its end
create_ticket_load(c, summary, fix_sql) ==
    /\ jira_data[c] = None
    /\ load_tickets.metadata.last_ticket_id < MaxTickets
    /\ jira_data' = [jira_data EXCEPT ![c] = Some([data |-> load_tickets, summary |-> summary, fix_sql |-> fix_sql])]
    /\ UNCHANGED <<jira_file, jira_return>>
    /\ UNCHANGED <<uiVars, kbVars>>

create_ticket_save(c) ==
    /\ jira_data[c] # None
    /\ jira_return' = Some(NewTicket(NextTicketNum(The(jira_data[c]).data), The(jira_data[c]).summary, The(jira_data[c]).fix_sql))
    /\ jira_file' = Some([The(jira_data[c]).data EXCEPT !.tickets = Append(@, The(jira_return')),
                                                         !.metadata.last_ticket_id = NextTicketNum(The(jira_data[c]).data)])
    /\ jira_data' = [jira_data EXCEPT ![c] = None]
    /\ UNCHANGED <<uiVars, kbVars>>

CreatorsNext ==
    \/ \E c \in Callers, summary \in Summaries, fix_sql \in FixSqls : create_ticket_load(c, summary, fix_sql)
    \/ \E c \in Callers : create_ticket_save(c)

SpecCreators == KBInit /\ [][CreatorsNext]_vars

\* the ids callers name: those create_ticket can have given, and one more
TicketIds == {FormatTicketId(n) : n \in 1..(MaxTickets + 1)}

JiraNext ==
    \/ \E summary \in SequentialSummaries, fix_sql \in FixSqls : create_ticket(summary, fix_sql)
    \/ \E ticket_id \in TicketIds, new_status \in NewStatuses : update_ticket_status(ticket_id, new_status)
    \/ \E ticket_id \in TicketIds, comment \in CommentTexts : add_comment(ticket_id, comment, "System")

SpecJira == KBInit /\ [][JiraNext]_vars

-----------------------------------------------------------------------------
(* The remediator tools on their own: the agent holds all of them and can  *)
(* call any with the statement of the fix at hand.                         *)

ToolsInit ==
    /\ active_tab = "Remediator"
    /\ approved_fix \in {Some([fix |-> f, rule |-> DetectionRule, table_name |-> t, timestamp |-> 1]) : f \in FixStatements, t \in TableNames}
    /\ dry_run_results = None
    /\ execution_results = None
    /\ skip_dry_run = FALSE
    /\ confirm_execute = FALSE
    /\ grouped_issues = FALSE
    /\ calls = <<>>
    /\ history = NoHistory
    /\ attempts = 1
    /\ env_configured \in BOOLEAN
    /\ KBIdle

ToolFrame == UNCHANGED <<active_tab, approved_fix, dry_run_results, execution_results, skip_dry_run, confirm_execute, grouped_issues, attempts, env_configured>>

CallDryRunFix(ok1, ok2) ==
    /\ calls' = <<DryRunResult[Text(The(approved_fix).fix), The(approved_fix).table_name, env_configured, ok1, ok2]>>
    /\ history' = Recorded(history, calls', The(approved_fix).timestamp)
    /\ ToolFrame
    /\ UNCHANGED <<kbVars, jiraVars>>

CallExecuteFix(ok) ==
    /\ calls' = <<ExecuteResult[Text(The(approved_fix).fix), The(approved_fix).table_name, env_configured, ok]>>
    /\ history' = Recorded(history, calls', The(approved_fix).timestamp)
    /\ ToolFrame
    /\ UNCHANGED <<kbVars, jiraVars>>

CallValidateFix(ok, violations) ==
    /\ calls' = <<ValidateResult[The(approved_fix).table_name, ok, violations]>>
    /\ history' = Recorded(history, calls', The(approved_fix).timestamp)
    /\ ToolFrame
    /\ UNCHANGED <<kbVars, jiraVars>>

CallCreateJiraTicket ==
    /\ calls' = <<create_jira_ticket("Fix failed", Text(The(approved_fix).fix))>>
    /\ history' = Recorded(history, calls', The(approved_fix).timestamp)
    /\ ToolFrame
    /\ UNCHANGED <<kbVars, jiraVars>>

ToolsNext ==
    \/ CallCreateJiraTicket
    \/ \E ok1, ok2 \in BOOLEAN : CallDryRunFix(ok1, ok2)
    \/ \E ok \in BOOLEAN : CallExecuteFix(ok)
    \/ \E ok \in BOOLEAN, violations \in 0..MaxViolations : CallValidateFix(ok, violations)

SpecTools == ToolsInit /\ [][ToolsNext]_vars

-----------------------------------------------------------------------------
(* Properties of the remediator tools and flow.                            *)

\* the fix whose statement the tool calls of this state were made for
Fix == The(approved_fix).fix
Table == The(approved_fix).table_name

GateCalls == {i \in DOMAIN calls : calls[i].tool \in {"dry_run_fix", "execute_fix"}}
DryRunCalls == {i \in DOMAIN calls : calls[i].tool = "dry_run_fix"}

\* an update or delete that has no scoping clause of its own
Unscoped(f) == f.verb \in {"UPDATE", "DELETE"} /\ f.pred = <<>>

\* C1: every update/delete statement without a WHERE clause of its own is
\* rejected by the safety gate (dry_run_fix: invalid_sql, execute_fix:
\* rejected) and nothing is sent to the data store, whatever else the
\* statement text contains.
C1_UnscopedAlwaysRejected ==
    \A i \in GateCalls :
        (env_configured /\ Unscoped(Fix)) =>
            /\ calls[i].queries = <<>>
            /\ calls[i].status = (IF calls[i].tool = "dry_run_fix" THEN "invalid_sql" ELSE "rejected")

\* C2: every query dry_run_fix issues is a SELECT, whatever kind of
\* statement it was given.
C2_DryRunOnlySelects ==
    \A i \in DryRunCalls : \A q \in DOMAIN calls[i].queries : OccursAt(Upper(calls[i].queries[q]), kwSELECT, 1)

\* C4: a table placeholder is replaced exactly once by the fully-qualified
\* identifier, which then stands exactly where the placeholder stood, with no
\* leftover brace; otherwise the statement is reported as an error and not
\* executed.
C4_PlaceholderResolvedOnce ==
    \A i \in GateCalls :
        (env_configured /\ Fix.ref \in Placeholders) =>
            \/ calls[i].sql = Fix.pre \o FullTable(Table) \o Fix.post
            \/ calls[i].queries = <<>> /\ calls[i].status # "success"

\* the preview and count the claim describes for predicate clause p on table t
ExpectedPreview(t, p) == txtSelectStarFrom \o FullTable(t) \o <<" ">> \o p \o <<" ">> \o txtLimit100
ExpectedCount(t, p) == txtSelectCount \o <<" ","F","R","O","M"," ">> \o FullTable(t) \o <<" ">> \o p

\* C5: for an UPDATE or DELETE whose own scoping clause is WHERE P, the
\* preview is SELECT * FROM T WHERE P LIMIT 100 and the count query is the
\* same selection with COUNT(*) and no row limit.
C5_PreviewOverOwnPredicate ==
    \A i \in DryRunCalls :
        (calls[i].queries # <<>> /\ Fix.verb \in {"UPDATE", "DELETE"} /\ Fix.pred # <<>>) =>
            /\ calls[i].queries[1] = ExpectedPreview(Table, Fix.pred)
            /\ Len(calls[i].queries) >= 2 => Strip(calls[i].queries[2]) = ExpectedCount(Table, Fix.pred)

\* C3: within one attempt an apply is sent to the data store only after a
\* preview of that attempt has run, and verify runs only after that apply.
C3_PreviewApplyVerifyOrder ==
    /\ \A r \in history.applied : r.previewed
    /\ \A v \in history.verified : v.applied

-----------------------------------------------------------------------------
(* Properties of the Knowledge Bank.                                       *)

\* the store as the singleton manager holds it
Store == load("m1")

Positions(kb) == UNION {{<<p, i>> : i \in DOMAIN kb.issue_patterns[p].historical_fixes} : p \in DOMAIN kb.issue_patterns}
FixAt(kb, pos) == kb.issue_patterns[pos[1]].historical_fixes[pos[2]]

\* the fix at pos got an outcome recorded in this step
Counted(pos) == pos \in Positions(Store) /\ pos \in Positions(Store') /\ FixAt(Store', pos) # FixAt(Store, pos)

\* success_rate is approval_count / (approval_count + rejection_count)
RateIsRatio(fix) == fix.success_rate.num * (fix.approval_count + fix.rejection_count) = fix.approval_count * fix.success_rate.den

\* the rate of the counters reaches 85% and there are at least 3 approvals
Eligible(fix) == fix.approval_count * 100 >= ThresholdPercent * (fix.approval_count + fix.rejection_count) /\ fix.approval_count >= MinApprovalCount

C6_Step ==
    /\ \A pos \in Positions(Store) :
          /\ pos \in Positions(Store')
          /\ FixAt(Store', pos).approval_count >= FixAt(Store, pos).approval_count
          /\ FixAt(Store', pos).rejection_count >= FixAt(Store, pos).rejection_count
    /\ outcomes' # outcomes =>
          /\ Cardinality({pos \in Positions(Store) : Counted(pos)}) = 1
          /\ \A pos \in Positions(Store) : Counted(pos) =>
                LET f == FixAt(Store, pos)
                    g == FixAt(Store', pos)
                IN /\ \/ g.approval_count = f.approval_count + 1 /\ g.rejection_count = f.rejection_count
                      \/ g.approval_count = f.approval_count /\ g.rejection_count = f.rejection_count + 1
                   /\ RateIsRatio(g)

\* C6: over update_fix_stats calls on an existing fix the two counters never
\* decrease, each call raises exactly one of them by one, and the stored
\* success_rate is approval_count / (approval_count + rejection_count) of the
\* counters the call leaves.
C6_CountersGrowRateIsRatio == [][C6_Step]_vars

\* a fix without history got one approval and one rejection: rate 1/2
C6_Witness == outcomes = 2 /\ \E pos \in Positions(Store) : FixAt(Store, pos).approval_count = 1 /\ FixAt(Store, pos).rejection_count = 1 /\ FixAt(Store, pos).success_rate = Fraction(1, 2)

C7_Step ==
    outcomes' # outcomes =>
        \A pos \in Positions(Store) : Counted(pos) =>
            LET f == FixAt(Store, pos)
                g == FixAt(Store', pos)
            IN /\ ~f.auto_approve => (g.auto_approve <=> Eligible(g))
               /\ (g.rejection_count > f.rejection_count /\ f.auto_approve /\ ~g.auto_approve) =>
                      g.approval_count * 100 < ThresholdPercent * (g.approval_count + g.rejection_count)

C8_DerivedFieldsNeverStale ==
    \A pos \in Positions(Store) :
        /\ RateIsRatio(FixAt(Store, pos))
        /\ FixAt(Store, pos).approval_count + FixAt(Store, pos).rejection_count = 0 => FixAt(Store, pos).success_rate = Zero
        /\ FixAt(Store, pos).auto_approve <=> Eligible(FixAt(Store, pos))

\* C9: no pattern holds two historical fixes with the same fix_id.
C9_FixIdUniqueInPattern ==
    \A p \in DOMAIN Store.issue_patterns :
        \A i, j \in DOMAIN Store.issue_patterns[p].historical_fixes :
            i # j => Store.issue_patterns[p].historical_fixes[i].fix_id # Store.issue_patterns[p].historical_fixes[j].fix_id

\* update_fix_stats would find no such pattern or no such fix in it
Unknown(kb, pattern_id, fix_id) == PatternIndex(kb, pattern_id) = 0 \/ FixIndex(kb.issue_patterns[PatternIndex(kb, pattern_id)].historical_fixes, fix_id) = 0

\* C10: update_fix_stats with an unknown pattern_id, or a fix_id unknown in
\* the pattern, leaves the whole store (patterns, fixes and metadata with
\* last_updated) as it was, in memory and in the file.
C10_UnknownIdsChangeNothing ==
    [][\A pattern_id \in PatternIds, fix_id \in FixIds, approved \in BOOLEAN :
          (Unknown(Store, pattern_id, fix_id) /\ update_fix_stats("m1", pattern_id, fix_id, approved)) =>
              (Store' = Store /\ kb_file' = kb_file)]_vars

\* what add_new_fix(pattern_id, fix_data) is to make of the store
AddedTo(old, new, pattern_id, fix_data) ==
    LET p == PatternIndex(new, pattern_id)
    IN /\ p # 0
       /\ Len(new.issue_patterns) = Len(old.issue_patterns) + (IF PatternIndex(old, pattern_id) = 0 THEN 1 ELSE 0)
       /\ PatternIndex(old, pattern_id) = 0 => p = Len(new.issue_patterns) /\ Len(new.issue_patterns[p].historical_fixes) = 1
       /\ \A i \in DOMAIN old.issue_patterns :
             /\ new.issue_patterns[i].pattern_id = old.issue_patterns[i].pattern_id
             /\ i # p => new.issue_patterns[i] = old.issue_patterns[i]
             /\ i = p => /\ Len(new.issue_patterns[i].historical_fixes) = Len(old.issue_patterns[i].historical_fixes) + 1
                         /\ SubSeq(new.issue_patterns[i].historical_fixes, 1, Len(old.issue_patterns[i].historical_fixes)) = old.issue_patterns[i].historical_fixes
       /\ new.issue_patterns[p].historical_fixes[Len(new.issue_patterns[p].historical_fixes)].fix_id = fix_data.fix_id
       /\ new.metadata.total_patterns = Len(new.issue_patterns)
       /\ new.metadata.total_fixes = Cardinality(Positions(new))

\* C11: an add_new_fix call creates the pattern when its id is unseen, appends
\* exactly one fix at the end of that pattern's historical_fixes, leaves
\* every other pattern and every existing fix as it was, and leaves
\* total_patterns = number of patterns and total_fixes = sum of the lengths
\* of all historical_fixes, in memory and in the file.
C11_AddAppendsAndCounts ==
    [][\A pattern_id \in PatternIds, fix_data \in Payloads :
          add_new_fix("m1", pattern_id, fix_data) =>
              (AddedTo(Store, Store', pattern_id, fix_data) /\ kb_file' = Store')]_vars

-----------------------------------------------------------------------------
(* Properties of the matcher.                                              *)

Searched == kb_match # None
Query == The(kb_match).issue_description
Match == The(kb_match).best_match
Stored == Store.issue_patterns

\* sizes of the intersection and the union of the lowercase word sets
Overlap(q, d) == Cardinality(KeywordsOf[q] \cap KeywordsOf[d])
Tokens(q, d) == Cardinality(KeywordsOf[q] \cup KeywordsOf[d])
\* the Jaccard similarity as a pair of integers (0/1 when both sets are empty)
JNum(q, d) == Overlap(q, d)
JDen(q, d) == IF Tokens(q, d) = 0 THEN 1 ELSE Tokens(q, d)
AboveThreshold(q, d) == JNum(q, d) * 10 > 3 * JDen(q, d)

\* the first stored pattern whose word set is the query's
FirstSameWords(q) == CHOOSE i \in DOMAIN Stored : KeywordsOf[Stored[i].description] = KeywordsOf[q] /\ \A j \in 1..(i - 1) : KeywordsOf[Stored[j].description] # KeywordsOf[q]

\* C12 (amended): the similarity against each stored pattern lies in
\* [0.0, 1.0]; a stored pattern whose description is identical to the query
\* and holds at least one word scores exactly 1.0, and the match returned
\* then has similarity 1.0 and is the first pattern in insertion order whose
\* lowercase word set is the query's.
C12_IdenticalWordsScoreOne ==
    Searched =>
        \A i \in DOMAIN Stored :
            /\ Similarity(KeywordsOf[Query], KeywordsOf[Stored[i].description]).num >= 0
            /\ Similarity(KeywordsOf[Query], KeywordsOf[Stored[i].description]).den > 0
            /\ Similarity(KeywordsOf[Query], KeywordsOf[Stored[i].description]).num <= Similarity(KeywordsOf[Query], KeywordsOf[Stored[i].description]).den
            /\ (Stored[i].description = Query /\ KeywordsOf[Query] # {}) =>
                  /\ Similarity(KeywordsOf[Query], KeywordsOf[Stored[i].description]) = One
                  /\ Match # None
                  /\ The(Match).similarity = One
                  /\ The(Match).pattern_id = Stored[FirstSameWords(Query)].pattern_id

\* the query "date of birth" found the pattern described "Date Of  Birth"
\* that was stored before the one described "date of birth"
C12_Witness == Searched /\ Query = descLower /\ Len(Stored) >= 2 /\ Stored[1].description = descCase /\ Stored[2].description = descLower /\ Match # None /\ The(Match).pattern_id = Stored[1].pattern_id /\ The(Match).similarity = One

\* C12 (as stated): the similarity lies in [0.0, 1.0], and a stored pattern
\* whose description is identical to the query description scores exactly
\* 1.0 and is returned as the match.
C12_IdenticalDescriptionReturned ==
    Searched =>
        \A i \in DOMAIN Stored :
            Stored[i].description = Query =>
                /\ Similarity(KeywordsOf[Query], KeywordsOf[Stored[i].description]) = One
                /\ Match # None
                /\ The(Match).description = Query

\* C13: search_similar_issue returns None for a query without words against
\* any store and for any query against a store without patterns, and it
\* changes neither the store in memory nor the file.
C13_EmptySearchFindsNothing ==
    [][\A issue_description \in Queries :
          search_similar_issue("m1", issue_description) =>
              /\ kb_file' = kb_file
              /\ Store' = Store
              /\ (KeywordsOf[issue_description] = {} \/ Store.issue_patterns = <<>>) => The(kb_match').best_match = None]_vars

\* the empty query was searched in a store holding a pattern whose
\* description is empty too
C13_Witness == Searched /\ Query = <<>> /\ Match = None /\ \E i \in DOMAIN Stored : Stored[i].description = <<>>

\* C14: a pattern is returned only if its Jaccard similarity is strictly
\* greater than 0.3 (and one is returned when some pattern's is); the
\* returned pattern has the maximum similarity over all stored patterns and
\* comes first in insertion order among those at the maximum.
C14_BestFirstAboveThreshold ==
    Searched =>
        /\ Match = None <=> (\A i \in DOMAIN Stored : ~AboveThreshold(Query, Stored[i].description))
        /\ Match # None =>
              \E i \in DOMAIN Stored :
                  /\ Stored[i].pattern_id = The(Match).pattern_id
                  /\ Stored[i].description = The(Match).description
                  /\ Stored[i].historical_fixes = The(Match).historical_fixes
                  /\ The(Match).similarity.num * JDen(Query, Stored[i].description) = JNum(Query, Stored[i].description) * The(Match).similarity.den
                  /\ AboveThreshold(Query, Stored[i].description)
                  /\ \A j \in DOMAIN Stored : JNum(Query, Stored[j].description) * JDen(Query, Stored[i].description) <= JNum(Query, Stored[i].description) * JDen(Query, Stored[j].description)
                  /\ \A j \in 1..(i - 1) : JNum(Query, Stored[j].description) * JDen(Query, Stored[i].description) < JNum(Query, Stored[i].description) * JDen(Query, Stored[j].description)

\* two patterns tie at 1/3 for the query "birth" and the first is returned
C14_Witness == Searched /\ Query = queryBirth /\ Len(Stored) >= 2 /\ Stored[1].description = descLower /\ Stored[2].description = descCase /\ Match # None /\ The(Match).pattern_id = Stored[1].pattern_id /\ The(Match).similarity = Fraction(1, 3)

\* C15 (amended): "date of birth in future" against a pattern described
\* "future date of birth check" has a word overlap of 4 out of 6 tokens,
\* similarity 2/3, and a pattern of that description is returned.
C15_ExampleOverlapFourOfSix ==
    (Searched /\ Query = queryFutureDob) =>
        \A i \in DOMAIN Stored :
            Stored[i].description = descFutureDobCheck =>
                /\ Overlap(Query, Stored[i].description) = 4
                /\ Tokens(Query, Stored[i].description) = 6
                /\ Similarity(KeywordsOf[Query], KeywordsOf[Stored[i].description]) = Fraction(2, 3)
                /\ Match # None
                /\ The(Match).description = descFutureDobCheck
                /\ The(Match).similarity = Fraction(2, 3)

\* the example query found the example pattern
C15_Witness == Searched /\ Query = queryFutureDob /\ Match # None /\ The(Match).description = descFutureDobCheck /\ Len(Stored) = 1

\* C15 (as stated): the example has a word overlap of 3 out of 6 tokens,
\* similarity 0.5, and the pattern is returned.
C15_ExampleOverlapThreeOfSix ==
    (Searched /\ Query = queryFutureDob) =>
        \A i \in DOMAIN Stored :
            Stored[i].description = descFutureDobCheck =>
                /\ Match # None
                /\ The(Match).description = descFutureDobCheck
                /\ Overlap(Query, Stored[i].description) = 3
                /\ Tokens(Query, Stored[i].description) = 6
                /\ The(Match).similarity = Fraction(1, 2)

-----------------------------------------------------------------------------
(* Properties of the verify step and of the reported outcome.              *)

C17_SuccessCarriesVerification ==
    (execution_results # None /\ The(execution_results).execution_status = "success") =>
        The(execution_results).validation_results # None

-----------------------------------------------------------------------------
(* Properties of escalation and of the ticket log.                         *)

\* the apply of the attempt on display came back from execute_fix as failed
ApplyFailed == calls # <<>> /\ calls[1].tool = "execute_fix" /\ calls[1].status = "failed"

\* C18: an apply that fails with an execution error (execute_fix returns
\* status failed) has a ticket in the durable ticket log by the time its
\* attempt ends (Execute Another Fix clears it); a failed execution is never
\* dropped without a ticket.
C18_FailedApplyLeavesTicket == [][(ExecuteAnotherFix /\ ApplyFailed) => load_tickets.tickets # <<>>]_vars

\* the attempt on display was applied and carries no outcome of a verification
\* (validate_fix not called, or its query raised) and no ticket
LeftApplied ==
    /\ execution_results # None
    /\ The(execution_results).execution_status = "success"
    /\ The(execution_results).validation_results \notin {Some("success"), Some("partial")}
    /\ ~The(execution_results).jira_ticket
    /\ load_tickets.tickets = <<>>

\* C19: every fix attempt that is started reaches exactly one of the terminal
\* states Rejected, Verified, PartiallyVerified or Escalated; none is left
\* in Applied (or Proposed, Previewed) when it ends, which is when
\* Execute Another Fix clears it.
C19_NoAttemptEndsApplied == [][ExecuteAnotherFix => ~LeftApplied]_vars

\* the number a ticket id stands for: the decimal value of what follows "DQ-"
DigitValue(c) == CHOOSE d \in 0..9 : DigitChars[d + 1] = c
RECURSIVE DecimalValue(_)
DecimalValue(digits) == IF digits = <<>> THEN 0 ELSE 10 * DecimalValue(SubSeq(digits, 1, Len(digits) - 1)) + DigitValue(digits[Len(digits)])
TicketNumber(ticket_id) == DecimalValue(SubSeq(ticket_id, 4, Len(ticket_id)))

\* the log as a later load_tickets finds it
LoggedTickets == load_tickets.tickets
LastTicketId == load_tickets.metadata.last_ticket_id

\* the ids in the log are fixed-width, grow strictly along it and so differ
IdsIncrease ==
    /\ \A i \in DOMAIN LoggedTickets : Len(LoggedTickets[i].ticket_id) = 7
    /\ \A i, j \in DOMAIN LoggedTickets : i < j => TicketNumber(LoggedTickets[i].ticket_id) < TicketNumber(LoggedTickets[j].ticket_id)

\* a create_ticket call answered with an open, uncommented ticket numbered
\* one past the stored last_ticket_id, put it last in the file and stored its number
CreatedNext ==
    \A summary \in SequentialSummaries, fix_sql \in FixSqls :
        create_ticket(summary, fix_sql) =>
            /\ jira_return' # None
            /\ The(jira_return').status = "OPEN"
            /\ The(jira_return').comments = <<>>
            /\ The(jira_return').summary = summary
            /\ TicketNumber(The(jira_return').ticket_id) = LastTicketId + 1
            /\ jira_file' # None
            /\ The(jira_file').tickets = Append(LoggedTickets, The(jira_return'))
            /\ The(jira_file').metadata.last_ticket_id = LastTicketId + 1

\* C20: each create_ticket call returns a ticket with status OPEN and an empty
\* comment list whose id number is the stored last_ticket_id plus one,
\* appends it at the end of the persisted log and stores the new
\* last_ticket_id; so the ids in the log are strictly increasing and
\* pairwise distinct.
C20_CreateAppendsNextId == [][CreatedNext]_vars /\ []IdsIncrease

\* a second ticket has just been created
C20_Witness ==
    /\ Len(LoggedTickets) = 2
    /\ jira_return = Some(LoggedTickets[2])
    /\ LoggedTickets[2].ticket_id = <<"D", "Q", "-", "0", "0", "0", "2">>
    /\ LoggedTickets[1].status = "RESOLVED"

\* the log holds a ticket with this id
Known(ticket_id) == \E i \in DOMAIN LoggedTickets : LoggedTickets[i].ticket_id = ticket_id

NotFoundLeavesLog(ticket_id) ==
    IF Known(ticket_id)
    THEN jira_return' = Some(Found(TRUE))
    ELSE jira_return' = Some(Found(FALSE)) /\ jira_file' = jira_file

\* C21: add_comment and update_ticket_status called with a ticket id that is
\* not in the log report failure (False) and leave the persisted log as it
\* was; called with a known id they report success.
C21_UnknownTicketIdFails ==
    [][/\ \A ticket_id \in TicketIds, new_status \in NewStatuses : update_ticket_status(ticket_id, new_status) => NotFoundLeavesLog(ticket_id)
       /\ \A ticket_id \in TicketIds, comment \in CommentTexts : add_comment(ticket_id, comment, "System") => NotFoundLeavesLog(ticket_id)]_vars

\* a call naming an id the log does not hold has been answered False while
\* the log holds a ticket
C21_Witness == jira_return = Some(Found(FALSE)) /\ Len(LoggedTickets) = 1

\* ticket new is ticket old with at most its status and update stamp changed
\* or one comment added
SameButStatus(old, new) == new = [old EXCEPT !.status = new.status, !.updated_at = new.updated_at]
OneMoreComment(old, new) == Len(new.comments) = Len(old.comments) + 1 /\ new = [old EXCEPT !.comments = Append(old.comments, new.comments[Len(new.comments)])]

\* what a call may do to the log
LogKept ==
    /\ Len(load_tickets'.tickets) >= Len(LoggedTickets)
    /\ \A ticket_id \in TicketIds, new_status \in NewStatuses :
          update_ticket_status(ticket_id, new_status) =>
              /\ Len(load_tickets'.tickets) = Len(LoggedTickets)
              /\ \A i \in DOMAIN LoggedTickets :
                    IF LoggedTickets[i].ticket_id = ticket_id
                    THEN SameButStatus(LoggedTickets[i], load_tickets'.tickets[i]) /\ load_tickets'.tickets[i].status = new_status
                    ELSE load_tickets'.tickets[i] = LoggedTickets[i]
    /\ \A ticket_id \in TicketIds, comment \in CommentTexts :
          add_comment(ticket_id, comment, "System") =>
              /\ Len(load_tickets'.tickets) = Len(LoggedTickets)
              /\ \A i \in DOMAIN LoggedTickets :
                    IF LoggedTickets[i].ticket_id = ticket_id
                    THEN OneMoreComment(LoggedTickets[i], load_tickets'.tickets[i])
                    ELSE load_tickets'.tickets[i] = LoggedTickets[i]
    /\ \A summary \in SequentialSummaries, fix_sql \in FixSqls :
          create_ticket(summary, fix_sql) => SubSeq(load_tickets'.tickets, 1, Len(LoggedTickets)) = LoggedTickets

\* C22: after any sequence of create_ticket, add_comment and
\* update_ticket_status calls no ticket has been removed or merged and the
\* order is unchanged; add_comment only appends one comment to the named
\* ticket, update_ticket_status only changes the named ticket's status and
\* update stamp, and every other ticket and field stays as it was.
C22_TicketsOnlyGrow == [][LogKept]_vars

\* a commented ticket has had its status changed, next to another ticket
C22_Witness ==
    /\ Len(LoggedTickets) = 2
    /\ LoggedTickets[1].comments # <<>>
    /\ LoggedTickets[1].status = "IN_PROGRESS"
    /\ LoggedTickets[2].status = "OPEN"
    /\ jira_return = Some(Found(TRUE))

-----------------------------------------------------------------------------
(* Properties of two managers over one store file.                         *)

\* the fix ids a snapshot holds under the pattern the managers use
FixIdsIn(kb) == {FixAt(kb, pos).fix_id : pos \in Positions(kb)}

\* manager m ends a mutating call in this step
Saves(m) == kb_call[m] # None /\ kb_call'[m] = None

\* what m writes is its own snapshot with its own change: the file it wrote
\* is what it then holds, and holds no fix beyond those m had loaded and the
\* one m added
WritesOwnSnapshot(m) ==
    /\ kb_file' # kb_file => kb_file' = The(kb_data'[m])
    /\ FixIdsIn(The(kb_data'[m])) \subseteq FixIdsIn(The(kb_data[m])) \cup (IF The(kb_call[m]).op = "add_new_fix" THEN {The(kb_call[m]).fix_data.fix_id} ELSE {})
    /\ Cardinality(Positions(The(kb_data'[m]))) <= Cardinality(Positions(The(kb_data[m]))) + 1

\* C23: when two callers run mutating calls (add_new_fix, update_fix_stats)
\* at the same time, each loading the whole store, changing it in memory and
\* saving the whole store back, the last writer's snapshot replaces the
\* file, so an update can be lost.
C23_LastWriterWins == [][\A m \in Managers : Saves(m) => WritesOwnSnapshot(m)]_vars

\* both managers have added their fix in overlapping calls, and the file
\* holds only the fix of the one that saved last
C23_Witness ==
    /\ kb_call = [m \in Managers |-> None]
    /\ kb_data["m1"] # None /\ FixIdsIn(The(kb_data["m1"])) = {"F1"}
    /\ kb_data["m2"] # None /\ FixIdsIn(The(kb_data["m2"])) = {"F2"}
    /\ FixIdsIn(kb_file) = {"F2"}
    /\ kb_file.metadata.total_fixes = 1

\* the file after the step still holds every fix it held, with no approval
\* or rejection taken back
NothingLost ==
    \A pos \in Positions(kb_file) :
        \E new \in Positions(kb_file') :
            /\ FixAt(kb_file', new).fix_id = FixAt(kb_file, pos).fix_id
            /\ FixAt(kb_file', new).approval_count >= FixAt(kb_file, pos).approval_count
            /\ FixAt(kb_file', new).rejection_count >= FixAt(kb_file, pos).rejection_count

\* C30: when two KnowledgeBankManager instances over the same store file make
\* mutating calls strictly one after the other, no update is lost: the
\* persisted store keeps every fix added and every approval and rejection
\* recorded by either instance.
C30_SequentialCallsLoseNothing == [][NothingLost]_vars

\* a create_ticket call ending in this step leaves every ticket of the log in
\* place and adds one with an id the log did not hold
KeepsAndAddsNewId(c) ==
    /\ SubSeq(load_tickets'.tickets, 1, Len(LoggedTickets)) = LoggedTickets
    /\ Len(load_tickets'.tickets) = Len(LoggedTickets) + 1
    /\ \A i \in DOMAIN LoggedTickets : LoggedTickets[i].ticket_id # The(jira_return').ticket_id

\* C29: when two callers run create_ticket concurrently (each doing
\* load_tickets, append, save_tickets on the shared file), both tickets are
\* in the persisted log afterwards and they have different ticket ids.
C29_ConcurrentCreatesBothKept == [][\A c \in Callers : create_ticket_save(c) => KeepsAndAddsNewId(c)]_vars

-----------------------------------------------------------------------------
(* Properties of the preview and of the Remediator tab.                    *)

\* query number q of call c and of call d are the same statement, where both
\* calls got as far as issuing it
SameQuery(c, d, q) == (Len(c.queries) >= q /\ Len(d.queries) >= q) => c.queries[q] = d.queries[q]

StrictlyEligible(fix) == fix.approval_count * 100 > ThresholdPercent * (fix.approval_count + fix.rejection_count) /\ fix.approval_count >= MinApprovalCount

\* C25: a fix is marked eligible for auto-approval only when its success rate
\* is strictly greater than 85% and it has at least 3 historical approvals.
C25_AutoApproveOnlyAboveThreshold == \A pos \in Positions(Store) : FixAt(Store, pos).auto_approve => StrictlyEligible(FixAt(Store, pos))

\* the Execute Fix button is rendered and enabled
ExecuteAvailable == ExecuteStepShown /\ ~ExecuteDisabled

\* the preview of the fix on display was rejected as unsafe
PreviewRejected == OnRemediator /\ dry_run_results # None /\ The(dry_run_results).status = "invalid_sql" /\ The(dry_run_results).of = The(approved_fix).timestamp

\* C26: when the preview step rejects a fix as unsafe (dry_run_fix returns
\* status invalid_sql) the attempt is terminal in Rejected: no apply is
\* afterwards offered or issued for that attempt.
C26_RejectedPreviewEndsAttempt ==
    /\ [](PreviewRejected => ~ExecuteAvailable)
    /\ [][PreviewRejected => \A ok, validates, escalates, vok \in BOOLEAN, violations \in 0..MaxViolations : ~ExecuteFix(ok, validates, escalates, vok, violations)]_vars

\* C27: in the Remediator tab the Execute Fix action is available exactly
\* when the user has ticked the confirmation and either the dry run was
\* skipped or dry-run results exist in the session: it is never available
\* otherwise, and with the dry run skipped or results at hand the
\* confirmation and the button are there for the user.
C27_ExecuteGate ==
    /\ ExecuteAvailable => (confirm_execute /\ (skip_dry_run \/ dry_run_results # None))
    /\ (OnRemediator /\ (skip_dry_run \/ dry_run_results # None)) => ExecuteStepShown

\* C28: whenever Execute Fix is enabled for the approved fix, the dry-run
\* results in the session come from a dry run of that same fix, and no
\* earlier fix's dry-run or execution results are attached to it.
C28_ResultsBelongToApprovedFix ==
    /\ ExecuteAvailable => The(dry_run_results).of = The(approved_fix).timestamp
    /\ (approved_fix # None /\ dry_run_results # None) => The(dry_run_results).of = The(approved_fix).timestamp
    /\ (approved_fix # None /\ execution_results # None) => The(execution_results).of = The(approved_fix).timestamp


=============================================================================
